---- MODULE Spec2Model ----
(***************************************************************************)
(* Model of val.py: evaluation of a segmentation network over a sweep of   *)
(* decision thresholds.  post, compute_confusion_matrix and                *)
(* compute_metrics are operators computed the way the code computes them;  *)
(* main() is a state machine over the manifest rows and the thresholds.    *)
(*                                                                         *)
(* Numbers.  The code works on floats.  Here every quantity is exact:      *)
(*   - Frac: [num, den] of naturals in lowest terms, for probabilities;    *)
(*   - Lg: [k, n, d], the real k + ln(n/d) with n/d in lowest terms, for   *)
(*     logits and thresholds (np.log of a rational is not rational;        *)
(*     n = 0 or d = 0 is the non-finite -inf/+inf);                        *)
(*   - Big: a natural number as a little-endian sequence of limbs in       *)
(*     0..Base-1 without a most significant zero limb (<<>> is 0);         *)
(*   - Rat: [num, den] of Bigs, the value num/den, for the metrics, whose  *)
(*     epsilon of 1e-7 takes them past 32 bits.  den = 0 is the            *)
(*     non-finite result of a division by zero (0/0 nan, n/0 inf) and      *)
(*     propagates through the arithmetic as it does in numpy.              *)
(***************************************************************************)
EXTENDS Integers, Sequences, FiniteSets

\* ----------------------------------------------------------- fractions
RECURSIVE GCD(_, _)
GCD(a, b) == IF b = 0 THEN a ELSE GCD(b, a % b)

Frac(n, d) ==
    LET g == GCD(n, d)
    IN  IF g = 0 THEN [num |-> 0, den |-> 0] ELSE [num |-> n \div g, den |-> d \div g]
Whole(n) == Frac(n, 1)
Milli(n) == Frac(n, 1000)
FAdd(x, y) == Frac(x.num * y.den + y.num * x.den, x.den * y.den)
\* x - y for x >= y
FSub(x, y) == Frac(x.num * y.den - y.num * x.den, x.den * y.den)
FMul(x, y) == Frac(x.num * y.num, x.den * y.den)
FDiv(x, y) == Frac(x.num * y.den, x.den * y.num)

\* ------------------------------------------------------------ naturals
Base == 10^4

Max(a, b) == IF a >= b THEN a ELSE b

RECURSIVE ToBig(_)
ToBig(n) == IF n = 0 THEN <<>> ELSE <<n % Base>> \o ToBig(n \div Base)

Limb(a, i) == IF i <= Len(a) THEN a[i] ELSE 0

\* limbs s (each >= 0, possibly >= Base) with carry c, made canonical
RECURSIVE Carry(_, _)
Carry(s, c) ==
    IF s = <<>> THEN ToBig(c)
    ELSE LET v == s[1] + c
         IN  <<v % Base>> \o Carry(Tail(s), v \div Base)

BigAdd(a, b) ==
    Carry([i \in 1..Max(Len(a), Len(b)) |-> Limb(a, i) + Limb(b, i)], 0)

RECURSIVE ConvSum(_, _, _, _)
ConvSum(a, b, k, i) ==
    IF i > Len(a) \/ i > k THEN 0
    ELSE (IF k - i + 1 <= Len(b) THEN a[i] * b[k - i + 1] ELSE 0)
         + ConvSum(a, b, k, i + 1)

BigMul(a, b) ==
    IF a = <<>> \/ b = <<>> THEN <<>>
    ELSE Carry([k \in 1..(Len(a) + Len(b) - 1) |-> ConvSum(a, b, k, 1)], 0)

\* ----------------------------------------------------------- rationals
Rat(n, d) == [num |-> n, den |-> d]
FromInt(n) == Rat(ToBig(n), ToBig(1))

Add(x, y) ==
    Rat(BigAdd(BigMul(x.num, y.den), BigMul(y.num, x.den)), BigMul(x.den, y.den))
Mul(x, y) == Rat(BigMul(x.num, y.num), BigMul(x.den, y.den))
Div(x, y) == Rat(BigMul(x.num, y.den), BigMul(x.den, y.num))

IsFinite(x) == x.den # <<>>
IsZero(x) == x.num = <<>> /\ x.den # <<>>

\* np.sqrt(x): kept as the radicand, sqrt(x) = 0 iff x = 0
Sqrt(x) == [sqrt |-> x]
Radicand(v) == IF "sqrt" \in DOMAIN v THEN v.sqrt ELSE v
\* a metric value is a number (no division by zero went into it)
MetricFinite(v) == IsFinite(Radicand(v))
MetricZero(v) == IsZero(Radicand(v))

\* ------------------------------------------------- logits and thresholds
Lg(k, n, d) == [k |-> k, n |-> Frac(n, d).num, d |-> Frac(n, d).den]
Real(k) == Lg(k, 1, 1)
\* np.log(q) of a rational q >= 0
Ln(q) == [k |-> 0, n |-> q.num, d |-> q.den]
LgSub(a, b) == Lg(a.k - b.k, a.n * b.d, a.d * b.n)
LgFinite(x) == x.n # 0 /\ x.d # 0
\* a >= b, that is ln(X/Y) >= b.k - a.k for X = a.n*b.d, Y = b.n*a.d.  Decided
\* exactly wherever it does not take a bound on e; no other case is evaluated.
GEQ(a, b) ==
    LET X == a.n * b.d
        Y == b.n * a.d
    IN  CASE a.k = b.k -> X >= Y
          [] a.k > b.k /\ X >= Y -> TRUE
          [] a.k < b.k /\ X <= Y -> FALSE

\* ---------------------------------------------------------------- val.py
number_of_thresholds == 25

\* np.linspace(start, stop, num): start + i*step with step = (stop-start)/(num-1),
\* the last sample set to stop; a single sample is start
linspace(start, stop, num) ==
    [i \in 1..num |->
        IF num = 1 THEN start
        ELSE IF i = num THEN stop
        ELSE FAdd(FMul(Whole(i - 1), FDiv(FSub(stop, start), Whole(num - 1))), start)]

\* variant: the sweep taken over the closed unit interval
sweep_probs_unit(num) == linspace(Milli(0), Milli(1000), num)

sweep_probs(num) == linspace(Milli(1), Milli(999), num)

\* thresholds = np.log(probs) - np.log(1 - probs)
prob2logit(probs) ==
    [i \in DOMAIN probs |-> LgSub(Ln(probs[i]), Ln(FSub(Whole(1), probs[i])))]

\* variant: the background mask applied before the threshold
post_masked_first(logits, label, threshold) ==
    LET ones == [i \in 1..Len(logits) |-> 127]
        masked == [i \in DOMAIN ones |-> IF label[i] = 0 THEN 0 ELSE ones[i]]
    IN  [i \in DOMAIN masked |->
            IF GEQ(logits[i], threshold) THEN 255 ELSE masked[i]]

\* variant: no background mask
post_unmasked(logits, label, threshold) ==
    [i \in 1..Len(logits) |-> IF GEQ(logits[i], threshold) THEN 255 ELSE 127]

\* variant: the comparison turned round
post_below(logits, label, threshold) ==
    LET over == [i \in 1..Len(logits) |->
                    IF GEQ(threshold, logits[i]) THEN 255 ELSE 127]
    IN  [i \in DOMAIN over |-> IF label[i] = 0 THEN 0 ELSE over[i]]

post(logits, label, threshold) ==
    LET ones == [i \in 1..Len(logits) |-> 127]
        over == [i \in DOMAIN ones |->
                    IF GEQ(logits[i], threshold) THEN 255 ELSE ones[i]]
    IN  [i \in DOMAIN over |-> IF label[i] = 0 THEN 0 ELSE over[i]]

Equal(arr, v) == [i \in DOMAIN arr |-> arr[i] = v]
NotEqual(arr, v) == [i \in DOMAIN arr |-> arr[i] # v]
logical_and(x, y) == [i \in DOMAIN x |-> x[i] /\ y[i]]
RECURSIVE np_sum(_)
np_sum(b) == IF b = <<>> THEN 0 ELSE (IF b[1] THEN 1 ELSE 0) + np_sum(Tail(b))

\* variant: a false negative counted only where the label is a mass
confusion_matrix_mass_fn(segmentation, label) ==
    << np_sum(logical_and(Equal(segmentation, 255), Equal(label, 255))),
       np_sum(logical_and(Equal(segmentation, 255), NotEqual(label, 255))),
       np_sum(logical_and(Equal(segmentation, 127), Equal(label, 127))),
       np_sum(logical_and(Equal(segmentation, 127), Equal(label, 255))) >>

compute_confusion_matrix(segmentation, label) ==
    LET true_positive ==
            np_sum(logical_and(Equal(segmentation, 255), Equal(label, 255)))
        false_positive ==
            np_sum(logical_and(Equal(segmentation, 255), NotEqual(label, 255)))
        true_negative ==
            np_sum(logical_and(Equal(segmentation, 127), Equal(label, 127)))
        false_negative ==
            np_sum(logical_and(Equal(segmentation, 127), NotEqual(label, 127)))
    IN  <<true_positive, false_positive, true_negative, false_negative>>

\* variant: no guard in the denominators
epsilon_zero == Rat(ToBig(0), ToBig(1))

epsilon == Rat(ToBig(1), ToBig(10^7))

compute_metrics(true_positive, false_positive, true_negative, false_negative) ==
    LET tp == FromInt(true_positive)
        fp == FromInt(false_positive)
        tn == FromInt(true_negative)
        fn == FromInt(false_negative)
        accuracy == Div(Add(tp, tn), Add(Add(Add(Add(tp, tn), fp), fn), epsilon))
        sensitivity == Div(tp, Add(Add(tp, fn), epsilon))
        specificity == Div(tn, Add(Add(fp, tn), epsilon))
        precision == Div(tp, Add(Add(tp, fp), epsilon))
        recall == sensitivity
        iou == Div(tp, Add(Add(Add(tp, fp), fn), epsilon))
        f1 == Div(Mul(Mul(FromInt(2), precision), recall),
                  Add(Add(precision, recall), epsilon))
        g_mean == Sqrt(Mul(sensitivity, specificity))
    IN  <<iou, f1, g_mean, accuracy, sensitivity, specificity, precision, recall>>

\* --------------------------------------------------------------- bounds
MaxExamples == 2     \* rows of the manifest
MaxSpan == 2         \* physical lines one manifest record may span
MaxPixels == 3       \* pixels of an image handed to post
MaxCount == 3        \* confusion counts handed to compute_metrics
MaxSweep == 40       \* threshold counts handed to the sweep

\* --------------------------------------------------------------- inputs
\* Predicted logits of the images of the manifest: ln(1/999) and ln(999) are
\* the first and the last threshold of the sweep, 0 is its middle one.
ImageLogits ==
    { <<Lg(0, 1, 999), Lg(0, 1, 1)>>, <<Lg(0, 1, 1), Lg(0, 999, 1)>> }
ImageLabels == { <<0, 127>>, <<127, 255>>, <<255, 255>> }
LossVals == { 1, 2 }

\* One manifest record: the image (by the logits the network predicts for it),
\* its label, the loss the network reports for the pair, and the number of
\* physical lines the record takes in the csv file (a quoted field may hold
\* line breaks).
ExampleSet ==
    { [logits |-> im, label |-> lb, loss |-> 1, span |-> 1] :
        im \in ImageLogits, lb \in ImageLabels }
    \cup
    { [logits |-> <<Lg(0, 1, 1), Lg(0, 999, 1)>>, label |-> <<127, 255>>,
       loss |-> s, span |-> k] : s \in LossVals, k \in 1..MaxSpan }

Manifests == UNION { [1..n -> ExampleSet] : n \in 0..MaxExamples }

LogitVals == { Real(-5), Real(0), Real(5) }
ThresholdVals == { Real(0), Real(5) }
LabelVals == { 0, 64, 127, 255 }

ScenarioLabel == <<0, 127, 127, 255, 255>>
ScenarioLogits == <<Real(-5), Real(-5), Real(5), Real(-5), Real(5)>>

\* ---------------------------------------------------------------- state
VARIABLES
    pc,                 \* position in main(), or in a single call
    lines,              \* the manifest
    n_thresholds,       \* module-level number_of_thresholds
    probs, thresholds,  \* the sweep
    i,                  \* index of the threshold being validated
    csv_pos,            \* rows the current csv_reader has returned
    line_num,           \* csv_reader.line_num
    confusion_matrix, confusion_matrix2,
    metrics, metrics2,
    reports,            \* thresholds whose metrics have been printed
    calls,              \* prediction.eval calls per (threshold, row)
    loss_accum,
    loss_out,           \* the printed "Logistic loss" values
    logits, label, threshold, segmentation   \* arguments and result of post

loopvars == <<i, csv_pos, line_num, confusion_matrix2, metrics, metrics2,
              reports, calls, loss_accum, loss_out>>
postvars == <<logits, label, threshold, segmentation>>
sweepvars == <<n_thresholds, probs, thresholds>>
vars == <<pc, lines, sweepvars, confusion_matrix, loopvars, postvars>>

zeros4 == <<0, 0, 0, 0>>

LoopIdle ==
    /\ i = 0 /\ csv_pos = 0 /\ line_num = 0
    /\ confusion_matrix2 = zeros4
    /\ metrics = <<>> /\ metrics2 = <<>>
    /\ reports = 0
    /\ loss_accum = 0 /\ loss_out = <<>>
PostIdle ==
    /\ logits = <<>> /\ label = <<>> /\ threshold = Real(0) /\ segmentation = <<>>
SweepIdle ==
    /\ probs = <<>> /\ thresholds = <<>>

\* ----------------------------------------------------------------- main()
Init ==
    /\ pc = "linspace"
    /\ lines \in Manifests
    /\ n_thresholds = number_of_thresholds
    /\ confusion_matrix = zeros4
    /\ calls = [p \in (0..(n_thresholds - 1)) \X (1..Len(lines)) |-> 0]
    /\ SweepIdle /\ LoopIdle /\ PostIdle

\* probs = np.linspace(0.001, 0.999, number_of_thresholds)
Linspace ==
    /\ pc = "linspace"
    /\ probs' = sweep_probs(n_thresholds)
    /\ pc' = "prob2logit"
    /\ UNCHANGED <<lines, n_thresholds, thresholds, confusion_matrix,
                   loopvars, postvars>>

Prob2Logit ==
    /\ pc = "prob2logit"
    /\ thresholds' = prob2logit(probs)
    /\ pc' = "threshold"
    /\ UNCHANGED <<lines, n_thresholds, probs, confusion_matrix,
                   loopvars, postvars>>

\* variant: the accumulators zeroed once, before the loop over the thresholds
reset_first_only(cm, idx) == IF idx = 0 THEN <<0, 0, 0, 0>> ELSE cm

\* confusion_matrix = np.zeros(4) at the head of a threshold's iteration
reset_accum(cm, idx) == zeros4


\* variant: the prediction obtained for the first threshold and kept
PredictCached(idx, row) ==
    calls' = IF idx = 0 THEN [calls EXCEPT ![<<idx, row>>] = @ + 1] ELSE calls

\* logits = prediction.eval({image: im})
predict(example) == example.logits
Predict(idx, row) == calls' = [calls EXCEPT ![<<idx, row>>] = @ + 1]

RECURSIVE np_max(_)
np_max(arr) ==
    IF Len(arr) = 1 THEN arr[1] ELSE Max(arr[1], np_max(Tail(arr)))

VecAdd(a, b) == [k \in DOMAIN a |-> a[k] + b[k]]

\* variant: the counts of the example assigned, not added
accumulate_overwrite(cm, cm2, example, thr) ==
    LET seg == post(predict(example), example.label, thr)
        counts == compute_confusion_matrix(seg, example.label)
    IN  << counts, IF np_max(example.label) = 255 THEN counts ELSE cm2 >>

\* the body of the loop over the rows: both accumulators after one example
accumulate(cm, cm2, example, thr) ==
    LET seg == post(predict(example), example.label, thr)
        counts == compute_confusion_matrix(seg, example.label)
    IN  << VecAdd(cm, counts),
           IF np_max(example.label) = 255 THEN VecAdd(cm2, counts) ELSE cm2 >>

BeginThreshold ==
    /\ pc = "threshold"
    /\ i < n_thresholds
    /\ csv_pos' = 0
    /\ line_num' = 0
    /\ confusion_matrix' = reset_accum(confusion_matrix, i)
    /\ confusion_matrix2' = reset_accum(confusion_matrix2, i)
    /\ pc' = "rows"
    /\ UNCHANGED <<lines, sweepvars, i, metrics, metrics2, reports, calls,
                   loss_accum, loss_out, postvars>>

Row ==
    /\ pc = "rows"
    /\ csv_pos < Len(lines)
    /\ LET example == lines[csv_pos + 1]
           acc == accumulate(confusion_matrix, confusion_matrix2, example,
                             thresholds[i + 1])
       IN  /\ Predict(i, csv_pos + 1)
           /\ confusion_matrix' = acc[1]
           /\ confusion_matrix2' = acc[2]
           /\ line_num' = line_num + example.span
    /\ csv_pos' = csv_pos + 1
    /\ UNCHANGED <<pc, lines, sweepvars, i, metrics, metrics2, reports,
                   loss_accum, loss_out, postvars>>

Metrics ==
    /\ pc = "rows"
    /\ csv_pos = Len(lines)
    /\ metrics' = compute_metrics(confusion_matrix[1], confusion_matrix[2],
                                  confusion_matrix[3], confusion_matrix[4])
    /\ metrics2' = compute_metrics(confusion_matrix2[1], confusion_matrix2[2],
                                   confusion_matrix2[3], confusion_matrix2[4])
    /\ reports' = reports + 1
    /\ i' = i + 1
    /\ pc' = "threshold"
    /\ UNCHANGED <<lines, sweepvars, csv_pos, line_num, confusion_matrix,
                   confusion_matrix2, calls, loss_accum, loss_out, postvars>>

\* csv_reader = csv.reader(lines); loss_accum = 0
LossInit ==
    /\ pc = "threshold"
    /\ i = n_thresholds
    /\ csv_pos' = 0
    /\ line_num' = 0
    /\ loss_accum' = 0
    /\ pc' = "loss"
    /\ UNCHANGED <<lines, sweepvars, i, confusion_matrix, confusion_matrix2,
                   metrics, metrics2, reports, calls, loss_out, postvars>>

LossRow ==
    /\ pc = "loss"
    /\ csv_pos < Len(lines)
    /\ loss_accum' = loss_accum + lines[csv_pos + 1].loss
    /\ line_num' = line_num + lines[csv_pos + 1].span
    /\ csv_pos' = csv_pos + 1
    /\ UNCHANGED <<pc, lines, sweepvars, i, confusion_matrix, confusion_matrix2,
                   metrics, metrics2, reports, calls, loss_out, postvars>>

\* print("Logistic loss: ", loss_accum/csv_reader.line_num); 0/0 raises
\* ZeroDivisionError and nothing is printed
LossReport ==
    /\ pc = "loss"
    /\ csv_pos = Len(lines)
    /\ IF line_num = 0
       THEN pc' = "error" /\ UNCHANGED loss_out
       ELSE /\ loss_out' = Append(loss_out, [num |-> loss_accum, den |-> line_num])
            /\ pc' = "done"
    /\ UNCHANGED <<lines, sweepvars, i, csv_pos, line_num, confusion_matrix,
                   confusion_matrix2, metrics, metrics2, reports, calls,
                   loss_accum, postvars>>

Next ==
    \/ Linspace
    \/ Prob2Logit
    \/ BeginThreshold
    \/ Row
    \/ Metrics
    \/ LossInit
    \/ LossRow
    \/ LossReport

Spec == Init /\ [][Next]_vars

\* ------------------------------------------------- the sweep for a count N
SweepInit ==
    /\ pc = "linspace"
    /\ n_thresholds \in 1..MaxSweep
    /\ lines = <<>>
    /\ confusion_matrix = zeros4
    /\ calls = <<>>
    /\ SweepIdle /\ LoopIdle /\ PostIdle

SpecSweep == SweepInit /\ [][Linspace \/ Prob2Logit]_vars

\* ------------------------------ post and compute_confusion_matrix, one call
PostInit ==
    /\ pc = "post"
    /\ \/ \E n \in 0..MaxPixels :
            /\ logits \in [1..n -> LogitVals]
            /\ label \in [1..n -> LabelVals]
       \/ logits = ScenarioLogits /\ label = ScenarioLabel
    /\ threshold \in ThresholdVals
    /\ segmentation = <<>>
    /\ lines = <<>>
    /\ n_thresholds = number_of_thresholds
    /\ confusion_matrix = zeros4
    /\ calls = <<>>
    /\ SweepIdle /\ LoopIdle

CallPost ==
    /\ pc = "post"
    /\ segmentation' = post(logits, label, threshold)
    /\ pc' = "confusion"
    /\ UNCHANGED <<lines, sweepvars, confusion_matrix, loopvars,
                   logits, label, threshold>>

CallConfusion ==
    /\ pc = "confusion"
    /\ confusion_matrix' = compute_confusion_matrix(segmentation, label)
    /\ pc' = "post_returned"
    /\ UNCHANGED <<lines, sweepvars, loopvars, postvars>>

SpecPost == PostInit /\ [][CallPost \/ CallConfusion]_vars

\* ------------------------------------------------ compute_metrics, one call
MetricsInit ==
    /\ pc = "metrics"
    /\ confusion_matrix \in [1..4 -> 0..MaxCount]
    /\ lines = <<>>
    /\ n_thresholds = number_of_thresholds
    /\ calls = <<>>
    /\ SweepIdle /\ LoopIdle /\ PostIdle

CallMetrics ==
    /\ pc = "metrics"
    /\ metrics' = compute_metrics(confusion_matrix[1], confusion_matrix[2],
                                  confusion_matrix[3], confusion_matrix[4])
    /\ pc' = "metrics_returned"
    /\ UNCHANGED <<lines, sweepvars, confusion_matrix, i, csv_pos, line_num,
                   confusion_matrix2, metrics2, reports, calls, loss_accum,
                   loss_out, postvars>>

SpecMetrics == MetricsInit /\ [][CallMetrics]_vars

\* ================================================================ claims

PostDone == pc \in {"confusion", "post_returned"}

\* C1: post returns, pixel by pixel, 0 where the label is 0 whatever the logit
\* and the threshold; elsewhere 255 where logit >= threshold (equality
\* included) and 127 otherwise; and no other value.
C1_PostValues ==
    PostDone =>
        /\ Len(segmentation) = Len(label)
        /\ \A p \in 1..Len(label) :
            /\ segmentation[p] \in {0, 127, 255}
            /\ label[p] = 0 => segmentation[p] = 0
            /\ label[p] # 0 /\ GEQ(logits[p], threshold) => segmentation[p] = 255
            /\ label[p] # 0 /\ ~GEQ(logits[p], threshold) => segmentation[p] = 127

C1_Witness ==
    /\ PostDone
    /\ \E p, q, r \in 1..Len(label) :
        /\ label[p] # 0 /\ logits[p] = threshold /\ segmentation[p] = 255
        /\ label[q] = 0 /\ GEQ(logits[q], threshold) /\ segmentation[q] = 0
        /\ segmentation[r] = 127

IsScenario ==
    logits = ScenarioLogits /\ label = ScenarioLabel /\ threshold = Real(0)

\* C2: compute_confusion_matrix returns (tp, fp, tn, fn), the numbers of pixels
\* with seg = 255 and label = 255, seg = 255 and label # 255, seg = 127 and
\* label = 127, seg = 127 and label # 127; on label [0,127,127,255,255], logits
\* [-5,-5,5,-5,5] and threshold 0, post gives [0,127,255,127,255] and the
\* counts are 1, 1, 1, 1.
C2_ConfusionCounts ==
    pc = "post_returned" =>
        LET D == 1..Len(label)
        IN  /\ confusion_matrix =
                << Cardinality({p \in D : segmentation[p] = 255 /\ label[p] = 255}),
                   Cardinality({p \in D : segmentation[p] = 255 /\ label[p] # 255}),
                   Cardinality({p \in D : segmentation[p] = 127 /\ label[p] = 127}),
                   Cardinality({p \in D : segmentation[p] = 127 /\ label[p] # 127}) >>
            /\ IsScenario =>
                /\ segmentation = <<0, 127, 255, 127, 255>>
                /\ confusion_matrix = <<1, 1, 1, 1>>

C2_Witness ==
    /\ pc = "post_returned"
    /\ IsScenario
    /\ confusion_matrix = <<1, 1, 1, 1>>

\* the pixels of arr at which the label is not 0
RECURSIVE InsideBreast(_, _)
InsideBreast(arr, lab) ==
    IF arr = <<>> THEN <<>>
    ELSE (IF lab[1] = 0 THEN <<>> ELSE <<arr[1]>>)
         \o InsideBreast(Tail(arr), Tail(lab))

\* C3: the pixels with label 0 contribute to none of the four counts: the
\* counts of post's segmentation are the same for any other logits at those
\* pixels, and the same with those pixels removed.
C3_BackgroundExcluded ==
    pc = "post_returned" =>
        /\ \A other \in [1..Len(label) -> LogitVals] :
            (\A p \in 1..Len(label) : label[p] # 0 => other[p] = logits[p])
            => compute_confusion_matrix(post(other, label, threshold), label)
               = confusion_matrix
        /\ compute_confusion_matrix(
               post(InsideBreast(logits, label), InsideBreast(label, label),
                    threshold),
               InsideBreast(label, label))
           = confusion_matrix

C3_Witness ==
    /\ pc = "post_returned"
    /\ confusion_matrix[1] > 0
    /\ confusion_matrix[4] > 0
    /\ \E p \in 1..Len(label) : label[p] = 0 /\ GEQ(logits[p], threshold)

AtMetrics == pc = "rows" /\ csv_pos = Len(lines)

ExampleCounts(example, thr) ==
    compute_confusion_matrix(post(predict(example), example.label, thr),
                             example.label)
HasMass(lab) == \E p \in 1..Len(lab) : lab[p] = 255

\* the sum of the counts of the rows, of all of them or of those with a mass
RECURSIVE SumCounts(_, _, _)
SumCounts(rows, thr, massOnly) ==
    IF rows = <<>> THEN <<0, 0, 0, 0>>
    ELSE VecAdd(IF massOnly /\ ~HasMass(rows[1].label) THEN <<0, 0, 0, 0>>
                ELSE ExampleCounts(rows[1], thr),
                SumCounts(Tail(rows), thr, massOnly))

\* C4: when the metrics of threshold i are derived, the all-examples
\* accumulator is the sum over every manifest example of its counts under
\* threshold i alone, and the mass-only accumulator is that sum over exactly
\* the examples whose label has maximum 255.
C4_AccumulatorsPerThreshold ==
    AtMetrics =>
        /\ confusion_matrix = SumCounts(lines, thresholds[i + 1], FALSE)
        /\ confusion_matrix2 = SumCounts(lines, thresholds[i + 1], TRUE)

C4_Witness ==
    /\ AtMetrics
    /\ i >= 1
    /\ Len(lines) >= 2
    /\ confusion_matrix2 # zeros4
    /\ confusion_matrix2 # confusion_matrix
    /\ SumCounts(lines, thresholds[i], FALSE) # confusion_matrix

\* C5: compute_metrics divides by zero for no tuple of non-negative counts,
\* and for the all-zero tuple the eight metrics are all 0.
C5_NoDivisionByZero ==
    pc = "metrics_returned" =>
        /\ Len(metrics) = 8
        /\ \A m \in 1..8 : MetricFinite(metrics[m])
        /\ confusion_matrix = zeros4 => \A m \in 1..8 : MetricZero(metrics[m])

C5_Witness ==
    /\ pc = "metrics_returned"
    /\ confusion_matrix = zeros4
    /\ \A m \in 1..8 : MetricZero(metrics[m])

Perms(n) == { f \in [1..n -> 1..n] : \A a, b \in 1..n : f[a] = f[b] => a = b }

\* the loop over the rows, run on `rows` from zeroed accumulators
RECURSIVE RunRows(_, _, _)
RunRows(rows, acc, thr) ==
    IF rows = <<>> THEN acc
    ELSE RunRows(Tail(rows), accumulate(acc[1], acc[2], rows[1], thr), thr)

\* C6: for a fixed threshold, the rows of the manifest taken in any order give
\* the same final all-examples and mass-only accumulators.
C6_OrderIndependent ==
    AtMetrics =>
        \A f \in Perms(Len(lines)) :
            RunRows([k \in 1..Len(lines) |-> lines[f[k]]], <<zeros4, zeros4>>,
                    thresholds[i + 1])
            = <<confusion_matrix, confusion_matrix2>>

C6_Witness ==
    /\ AtMetrics
    /\ Len(lines) >= 2
    /\ HasMass(lines[1].label) /\ ~HasMass(lines[2].label)
    /\ ExampleCounts(lines[1], thresholds[i + 1])
       # ExampleCounts(lines[2], thresholds[i + 1])
    /\ confusion_matrix2 # zeros4

SweepDone == pc = "threshold"

RECURSIVE SumLoss(_)
SumLoss(rows) == IF rows = <<>> THEN 0 ELSE rows[1].loss + SumLoss(Tail(rows))

\* C8: the aggregate loss is reported once, after the metrics of every
\* threshold, and its value is the sum of the per-example losses divided by the
\* number of examples of the manifest.
C8_MeanLoss ==
    pc = "done" =>
        /\ Len(loss_out) = 1
        /\ reports = n_thresholds
        /\ loss_out[1].num * Len(lines) = SumLoss(lines) * loss_out[1].den

RECURSIVE SumCalls(_)
SumCalls(S) ==
    IF S = {} THEN 0
    ELSE LET p == CHOOSE q \in S : TRUE
         IN  calls[p] + SumCalls(S \ {p})

LossPassBegun ==
    \/ pc \in {"loss", "done", "error"}
    \/ pc = "threshold" /\ i = n_thresholds

\* C9: the prediction is obtained once for each (threshold, example) pair,
\* never twice, so T thresholds over E examples make T x E prediction calls
\* before the loss pass begins.
C9_PredictOncePerPair ==
    /\ \A p \in DOMAIN calls :
        calls[p] = IF p[1] < i \/ (p[1] = i /\ pc = "rows" /\ p[2] <= csv_pos)
                   THEN 1 ELSE 0
    /\ LossPassBegun =>
        /\ DOMAIN calls = (0..(n_thresholds - 1)) \X (1..Len(lines))
        /\ SumCalls(DOMAIN calls) = n_thresholds * Len(lines)

C9_Witness ==
    /\ pc = "loss" /\ csv_pos = 0
    /\ Len(lines) >= 2
    /\ SumCalls(DOMAIN calls) = n_thresholds * Len(lines)

CountLabel(lab, v) == Cardinality({p \in 1..Len(lab) : lab[p] = v})

\* C10: for a label with values in {0, 127, 255} and fixed logits, raising the
\* threshold never raises tp or fp and never lowers tn or fn; tp + fn is the
\* number of pixels labelled 255 and fp + tn the number labelled 127, so the
\* four counts add up to the number of pixels whose label is not 0.
C10_MonotoneInThreshold ==
    (pc = "post_returned" /\ \A p \in 1..Len(label) : label[p] \in {0, 127, 255})
    =>  /\ confusion_matrix[1] + confusion_matrix[4] = CountLabel(label, 255)
        /\ confusion_matrix[2] + confusion_matrix[3] = CountLabel(label, 127)
        /\ confusion_matrix[1] + confusion_matrix[2] + confusion_matrix[3]
           + confusion_matrix[4] = Len(label) - CountLabel(label, 0)
        /\ \A t2 \in ThresholdVals :
            GEQ(t2, threshold) =>
                LET higher == compute_confusion_matrix(
                                  post(logits, label, t2), label)
                IN  /\ higher[1] <= confusion_matrix[1]
                    /\ higher[2] <= confusion_matrix[2]
                    /\ higher[3] >= confusion_matrix[3]
                    /\ higher[4] >= confusion_matrix[4]

C10_Witness ==
    /\ pc = "post_returned"
    /\ \A p \in 1..Len(label) : label[p] \in {0, 127, 255}
    /\ CountLabel(label, 0) > 0
    /\ \E t2 \in ThresholdVals :
        /\ GEQ(t2, threshold) /\ ~GEQ(threshold, t2)
        /\ LET higher == compute_confusion_matrix(post(logits, label, t2), label)
           IN  /\ higher[1] < confusion_matrix[1]
               /\ higher[2] < confusion_matrix[2]

====
